---- MODULE Spec2Model ----
(***************************************************************************)
(* Model of the swift_pay face server (layer2/face_server).                *)
(*                                                                         *)
(*   main.py       the HTTP face server: the FaceDB enrollment store, the  *)
(*                 Haar-cascade detect_face and the register / verify /    *)
(*                 authorize-payment / users handlers    (specification    *)
(*                 Spec; SpecConc with two requests in flight; SpecSeq     *)
(*                 with the answers of consecutive calls)                  *)
(*   face_utils.py FaceProcessor: detect_face (localize, liveness, align), *)
(*                 check_liveness and its four checks, compare_faces       *)
(*                 (specifications SpecProc, SpecLive and SpecMatch)       *)
(*                                                                         *)
(* Images are small arrays of BGR pixels; reals are scaled integers.       *)
(***************************************************************************)
EXTENDS Integers, Sequences, FiniteSets, TLC

VARIABLES
    face_cascade,  \* main.py: the module-level Haar classifier: "ok", or "none" if not loaded
    users,         \* FaceDB.users: username -> path of the stored face image
    dbFile,        \* the file DB_PATH: NoFile, Corrupt or the JSON object it holds
    files,         \* the files STORAGE_DIR/<username>.jpg: NoFile, Corrupt or JPEG data
    resp,          \* the response of the last HTTP call
    call,          \* history: what the last HTTP call was and what happened in it
    result,        \* FaceProcessor.detect_face: the (face, is_live) pair last returned
    trace,         \* history: the stages FaceProcessor.detect_face ran, how it ended,
                   \*          and the liveness scores it logged (line 148)
    evals,         \* check_liveness: two evaluations side by side (slot -> evaluation)
    reqs,          \* the HTTP requests in flight: slot -> where its handler stands
    cmp            \* compare_faces: the last two embeddings compared and the value returned

vars == <<face_cascade, users, dbFile, files, resp, call, result, trace, evals,
          reqs, cmp>>

storeVars == <<users, dbFile, files>>

-----------------------------------------------------------------------------
(* Arithmetic helpers *)

Min(a, b) == IF a < b THEN a ELSE b
Max(a, b) == IF a > b THEN a ELSE b

RECURSIVE SumSeq(_)
SumSeq(s) == IF s = <<>> THEN 0 ELSE Head(s) + SumSeq(Tail(s))

RECURSIVE Flatten(_)
\* all the values of a 2-D array (a sequence of rows), row after row
Flatten(rows) == IF rows = <<>> THEN <<>> ELSE Head(rows) \o Flatten(Tail(rows))

-----------------------------------------------------------------------------
(* Images: a decoded image is a sequence of rows of <<b, g, r>> pixels *)

Height(img) == Len(img)
Width(img) == IF Len(img) = 0 THEN 0 ELSE Len(img[1])
\* numpy: ndarray.size of the pixel grid
Size(img) == Height(img) * Width(img)

\* a gray-valued BGR pixel
Px(v) == <<v, v, v>>
\* a one-row BGR image from gray values
Strip(vals) == << [i \in 1..Len(vals) |-> Px(vals[i])] >>

\* numpy slicing img[y:y+h, x:x+w] (0-based, end-exclusive, clipped to the array)
Crop(img, x, y, w, h) ==
    LET y2 == Min(y + h, Height(img))
        x2 == Min(x + w, Width(img))
    IN  [i \in 1..Max(0, y2 - y) |-> [j \in 1..Max(0, x2 - x) |-> img[y + i][x + j]]]

\* cv2.cvtColor(.., COLOR_BGR2GRAY): OpenCV's fixed-point luma, per pixel
GrayPx(p) == (p[1] * 1868 + p[2] * 9617 + p[3] * 4899 + 8192) \div 16384
cvtColor_BGR2GRAY(img) ==
    [i \in 1..Height(img) |-> [j \in 1..Width(img) |-> GrayPx(img[i][j])]]

\* one line of cv2.resize (INTER_LINEAR, pixel centres aligned) to length dw
Resize1(row, dw) ==
    LET sw == Len(row)
        den == 2 * dw
    IN  [i \in 1..dw |->
            LET num == (2 * (i - 1) + 1) * sw - dw
                x0 == IF num < 0 THEN 0 ELSE num \div den
                f == IF num < 0 THEN 0 ELSE num % den
                x1 == Min(x0 + 1, sw - 1)
            IN  ((den - f) * row[x0 + 1] + f * row[x1 + 1] + dw) \div den]

\* cv2.resize(gray, (dw, dh)): rows first, then columns
cv2_resize(gray, dw, dh) ==
    LET wide == [i \in 1..Height(gray) |-> Resize1(gray[i], dw)]
        col(j) == [i \in 1..Height(gray) |-> wide[i][j]]
        tall == [j \in 1..dw |-> Resize1(col(j), dh)]
    IN  [i \in 1..dh |-> [j \in 1..dw |-> tall[j][i]]]

-----------------------------------------------------------------------------
(* Bounds of the model *)

\* pixel values run 0..PixMax (the saturation value of the pixel type)
PixMax == 9
\* quantisation step of the lossy JPEG codec behind cv2.imwrite / cv2.imread
JpegStep == 2

Names == {"alice", "bob"}

-----------------------------------------------------------------------------
(* Files: the JPEG codec and the file system under STORAGE_DIR *)

\* a file: absent, holding undecodable bytes (a partial write), or holding data
NoFile == [state |-> "absent"]
Corrupt == [state |-> "corrupt"]
FileWith(data) == [state |-> "data", data |-> data]
None == "None"

STORAGE_DIR == "face_data"

\* os.path.join(STORAGE_DIR, f"{username}.jpg")
Path(username) == <<STORAGE_DIR, username, "jpg">>
FileOf(path) == path[2]

\* the JPEG data cv2.imwrite produces: every channel quantised (lossy)
JpegEncode(img) ==
    [i \in 1..Height(img) |-> [j \in 1..Width(img) |->
        [c \in 1..3 |-> (img[i][j][c] + JpegStep \div 2) \div JpegStep]]]

\* the image cv2.imread decodes from JPEG data
JpegDecode(data) ==
    [i \in 1..Len(data) |-> [j \in 1..Len(data[1]) |->
        [c \in 1..3 |-> Min(PixMax, data[i][j][c] * JpegStep)]]]

\* outcomes of writing a file: written; open() failed (file as before);
\* opened and truncated, then the write failed (partial file left)
IoOutcomes == {"ok", "fail_open", "fail_write"}

\* cv2.imwrite(path, img): returns success and leaves the files as `files`
cv2_imwrite(fs, path, img, io) ==
    CASE io = "ok" ->
            [success |-> TRUE,
             files |-> [fs EXCEPT ![FileOf(path)] = FileWith(JpegEncode(img))]]
      [] io = "fail_open" ->
            [success |-> FALSE, files |-> fs]
      [] OTHER ->
            [success |-> FALSE, files |-> [fs EXCEPT ![FileOf(path)] = Corrupt]]

\* os.path.exists(path)
os_path_exists(fs, path) == fs[FileOf(path)] # NoFile

\* cv2.imread(path): None when the file cannot be decoded
cv2_imread(fs, path) ==
    IF fs[FileOf(path)].state # "data"
    THEN [none |-> TRUE]
    ELSE [none |-> FALSE, img |-> JpegDecode(fs[FileOf(path)].data)]

-----------------------------------------------------------------------------
(* cv2.matchTemplate(image, templ, TM_CCOEFF_NORMED) on two arrays of the same
   size: the one correlation coefficient num / sqrt(den2), kept as the pair.
   OpenCV answers 1 for a constant template, and otherwise 0 when the
   denominator vanishes (a constant image). *)

Dot(a, b) == SumSeq([i \in 1..Len(a) |-> a[i] * b[i]])

\* over the flattened arrays a and t, with their sums sa and st
CCoeffNormed(a, t, sa, st) ==
    LET n == Len(a)
    IN  IF n * Dot(t, t) - st * st = 0
        THEN [num |-> 1, den2 |-> 1]
        ELSE [num |-> n * Dot(a, t) - sa * st,
              den2 |-> (n * Dot(a, a) - sa * sa) * (n * Dot(t, t) - st * st)]

CCoeffOf(a, t) == CCoeffNormed(a, t, SumSeq(a), SumSeq(t))

cv2_matchTemplate(image, templ) == CCoeffOf(Flatten(image), Flatten(templ))

\* threshold = 0.75 as the fraction thresholdNum / thresholdDen
thresholdNum == 3
thresholdDen == 4

\* score > p/q for a score num / sqrt(den2) (0 when den2 = 0)
ScoreGreater(score, p, q) ==
    /\ score.den2 > 0
    /\ score.num > 0
    /\ q * q * score.num * score.num > p * p * score.den2

-----------------------------------------------------------------------------
(* The uploaded images the handlers are called with.  dec: whether cv2.imdecode
   decodes the bytes; pix: the decoded image; det1 / det2: the rectangles
   <<x, y, w, h>> the Haar cascade reports on it with the default and with the
   lenient parameters; conf1 / conf2: the classifier's confidence in each of
   them, in hundredths, which detectMultiScale does not return. *)

Rect(x, y, w, h) == [x |-> x, y |-> y, w |-> w, h |-> h]

ImageTable ==
    [ faceA  |-> [dec |-> TRUE, pix |-> Strip(<<1, 4, 9, 3, 6, 8, 2, 0>>),
                  det1 |-> <<Rect(0, 0, 5, 1)>>, conf1 |-> <<99>>,
                  det2 |-> <<Rect(0, 0, 5, 1)>>, conf2 |-> <<99>>],
      faceB  |-> [dec |-> TRUE, pix |-> Strip(<<8, 2, 1, 7, 9, 0, 4, 3>>),
                  det1 |-> <<>>, conf1 |-> <<>>,
                  det2 |-> <<Rect(0, 0, 3, 1), Rect(2, 0, 5, 1)>>,
                  conf2 |-> <<95, 80>>],
      faint  |-> [dec |-> TRUE, pix |-> Strip(<<4, 5, 5, 5, 5, 5, 6, 6>>),
                  det1 |-> <<>>, conf1 |-> <<>>, det2 |-> <<>>, conf2 |-> <<>>],
      soft   |-> [dec |-> TRUE, pix |-> Strip(<<5, 7, 8, 7, 7, 8, 6, 6>>),
                  det1 |-> <<Rect(2, 0, 5, 1)>>, conf1 |-> <<90>>,
                  det2 |-> <<Rect(2, 0, 5, 1)>>, conf2 |-> <<90>>],
      junk   |-> [dec |-> FALSE, pix |-> <<>>,
                  det1 |-> <<>>, conf1 |-> <<>>, det2 |-> <<>>, conf2 |-> <<>>] ]

Images == DOMAIN ImageTable

-----------------------------------------------------------------------------
(* main.py: detect_face *)

\* str(e) of an HTTPException: its status code and detail
HTTPException(status_code, detail) ==
    [kind |-> "raise", status_code |-> status_code, detail |-> detail]
StrOf(e) == <<e.status_code, e.detail>>

\* max(faces, key=lambda rect: rect[2] * rect[3]): the first rectangle of largest area
RECURSIVE LargestFace(_)
LargestFace(faces) ==
    IF Len(faces) = 1 THEN faces[1]
    ELSE LET rest == LargestFace(Tail(faces))
         IN  IF rest.w * rest.h > Head(faces).w * Head(faces).h THEN rest ELSE Head(faces)

\* int(0.2 * w)
Margin(w) == w \div 5

\* lines 229-243: the chosen rectangle widened by the margin, clamped to the image
FaceRegion(img, faces) ==
    LET largest_face == LargestFace(faces)
        margin == Margin(largest_face.w)
        x == Max(0, largest_face.x - margin)
        y == Max(0, largest_face.y - margin)
        w == Min(Width(img) - x, largest_face.w + 2 * margin)
        h == Min(Height(img) - y, largest_face.h + 2 * margin)
    IN  Rect(x, y, w, h)

\* the body of the try block, lines 183-246: an HTTPException or the face image
\* (kind "ok"; the callers test for None, kind "none", which is never returned).
\* runs: how often the detector ran; nfaces: how many faces it last reported;
\* faces, conf: the candidates and the detector's confidence in each; chosen:
\* largest_face; region: the rectangle cut out of the image.
detect_face_body(image, cascade) ==
    LET im == ImageTable[image]
        faces == IF Len(im.det1) = 0 THEN im.det2 ELSE im.det1
        conf == IF Len(im.det1) = 0 THEN im.conf2 ELSE im.conf1
        r == FaceRegion(im.pix, faces)
    IN  IF cascade # "ok"
        THEN HTTPException(500, "Face detection system not properly initialized")
        ELSE IF ~im.dec
        THEN HTTPException(400, "Invalid image format")
        ELSE IF Len(faces) = 0
        THEN [kind |-> "ok", face_img |-> im.pix, fallback |-> TRUE,
              runs |-> 2, nfaces |-> 0, faces |-> faces, conf |-> conf,
              shape |-> <<Height(im.pix), Width(im.pix)>>,
              chosen |-> Rect(0, 0, Width(im.pix), Height(im.pix)),
              region |-> Rect(0, 0, Width(im.pix), Height(im.pix))]
        ELSE [kind |-> "ok", face_img |-> Crop(im.pix, r.x, r.y, r.w, r.h),
              fallback |-> FALSE,
              runs |-> IF Len(im.det1) = 0 THEN 2 ELSE 1, nfaces |-> Len(faces),
              faces |-> faces, conf |-> conf,
              shape |-> <<Height(im.pix), Width(im.pix)>>,
              chosen |-> LargestFace(faces), region |-> r]

\* detect_face: the except clause (lines 247-249) turns every exception of the
\* body, its own HTTPExceptions included, into a 500
detect_face(image, cascade) ==
    LET b == detect_face_body(image, cascade)
    IN  IF b.kind = "raise"
        THEN HTTPException(500, <<"Error processing image: ", StrOf(b)>>)
        ELSE b

-----------------------------------------------------------------------------
(* main.py: class FaceDB.  A store is [users, dbFile, files]. *)

Store(u, d, f) == [users |-> u, dbFile |-> d, files |-> f]

\* self.users[username] = path
DictPut(d, k, v) == [n \in (DOMAIN d) \cup {k} |-> IF n = k THEN v ELSE d[n]]

EmptyDict == [n \in {} |-> None]

\* FaceDB.save_database: writes self.users to DB_PATH; every exception is logged
\* and swallowed, so it returns normally whatever happened to the file
save_database(u, d, io) ==
    CASE io = "ok" -> FileWith(u)
      [] io = "fail_open" -> d
      [] OTHER -> Corrupt

\* FaceDB.load_database: the users after loading, and the file as it is left
load_database(u, d, io) ==
    IF d.state # "absent"
    THEN [users |-> IF d.state = "corrupt" THEN u ELSE d.data, dbFile |-> d]
    ELSE [users |-> u, dbFile |-> save_database(u, d, io)]

\* (mutant) add_user assigning self.users[username] before it writes the image
AddWritten_entry_first(st, username, user_face_path, written, sv) ==
    IF ~written.success
    THEN [raised |-> TRUE,
          exc |-> <<"Failed to save face image to ", user_face_path>>,
          st |-> Store(DictPut(st.users, username, user_face_path), st.dbFile,
                       written.files)]
    ELSE IF ~os_path_exists(written.files, user_face_path)
    THEN [raised |-> TRUE,
          exc |-> <<"Face image file not found after saving: ", user_face_path>>,
          st |-> Store(DictPut(st.users, username, user_face_path), st.dbFile,
                       written.files)]
    ELSE [raised |-> FALSE, path |-> user_face_path,
          st |-> Store(DictPut(st.users, username, user_face_path),
                       save_database(DictPut(st.users, username, user_face_path),
                                     st.dbFile, sv),
                       written.files)]

\* FaceDB.add_user, lines 110-127, with the outcome of cv2.imwrite
AddWritten(st, username, user_face_path, written, sv) ==
    IF ~written.success
    THEN [raised |-> TRUE,
          exc |-> <<"Failed to save face image to ", user_face_path>>,
          st |-> Store(st.users, st.dbFile, written.files)]
    ELSE IF ~os_path_exists(written.files, user_face_path)
    THEN [raised |-> TRUE,
          exc |-> <<"Face image file not found after saving: ", user_face_path>>,
          st |-> Store(st.users, st.dbFile, written.files)]
    ELSE [raised |-> FALSE, path |-> user_face_path,
          st |-> Store(DictPut(st.users, username, user_face_path),
                       save_database(DictPut(st.users, username, user_face_path),
                                     st.dbFile, sv),
                       written.files)]

\* FaceDB.add_user: raised with the exception's message, or the returned path;
\* st is the store as the call leaves it
add_user(st, username, face_image, iw, sv) ==
    IF Size(face_image) = 0
    THEN [raised |-> TRUE, exc |-> <<"Invalid face image: Image is empty">>, st |-> st]
    ELSE AddWritten(st, username, Path(username),
                    cv2_imwrite(st.files, Path(username), face_image, iw), sv)

\* FaceDB.verify_face, lines 149-172: both images to gray, the probe resized to
\* the stored image's size, template matching, score > threshold
MatchScore(face_image, stored_face_gray) ==
    LET face_image_gray == cv2_resize(cvtColor_BGR2GRAY(face_image),
                                      Width(stored_face_gray), Height(stored_face_gray))
    IN  cv2_matchTemplate(face_image_gray, stored_face_gray)

\* lines 167-172: result = score > threshold
CompareFaces(score) ==
    [ret |-> ScoreGreater(score, thresholdNum, thresholdDen), line |-> "L172",
     score |-> score]

\* no comparison was made
NoScore == [num |-> 0, den2 |-> 0]

\* lines 143-175, with the stored image as cv2.imread returned it
VerifyAgainst(face_image, stored_face) ==
    IF stored_face.none
    THEN [ret |-> FALSE, line |-> "L147", score |-> NoScore]
    ELSE IF Size(face_image) = 0
    THEN [ret |-> FALSE, line |-> "L175", score |-> NoScore]
    ELSE CompareFaces(MatchScore(face_image, cvtColor_BGR2GRAY(stored_face.img)))

\* (mutant) verify_face answering True for a username it has no record of
FaceDB_verify_face_permissive(st, face_image, username) ==
    IF username \notin DOMAIN st.users
    THEN [ret |-> TRUE, line |-> "L134", score |-> NoScore]
    ELSE IF ~os_path_exists(st.files, st.users[username])
    THEN [ret |-> FALSE, line |-> "L140", score |-> NoScore]
    ELSE VerifyAgainst(face_image, cv2_imread(st.files, st.users[username]))

\* FaceDB.verify_face: the value returned (ret) and the line of the return taken
FaceDB_verify_face(st, face_image, username) ==
    IF username \notin DOMAIN st.users
    THEN [ret |-> FALSE, line |-> "L134", score |-> NoScore]
    ELSE IF ~os_path_exists(st.files, st.users[username])
    THEN [ret |-> FALSE, line |-> "L140", score |-> NoScore]
    ELSE VerifyAgainst(face_image, cv2_imread(st.files, st.users[username]))

\* a verify that also kept the probe as the identity's new reference image
FaceDB_verify_face_leaves_updating(st, face_image, username) ==
    IF username \in DOMAIN st.users
    THEN Store(st.users, st.dbFile,
               [st.files EXCEPT ![username] = FileWith(JpegEncode(face_image))])
    ELSE st

\* FaceDB.verify_face, lines 129-175: the store as the call leaves it.  It
\* assigns nothing to self.users, opens the image only for reading and never
\* calls save_database.
FaceDB_verify_face_leaves(st, face_image, username) == st

-----------------------------------------------------------------------------
(* main.py: the HTTP handlers.  Each runs without a suspension point after its
   `await file.read()`, so each is one step. *)

CurStore == Store(users, dbFile, files)

\* the record of username is the one a successful enroll of this face image
\* wrote, and nothing has replaced it since
EnrolledWith(username, face_img) ==
    /\ username \in DOMAIN users
    /\ users[username] = Path(username)
    /\ files[username] = FileWith(JpegEncode(face_img))

\* what detect_face did when it raised before choosing a rectangle
NoLoc == [faces |-> <<>>, conf |-> <<>>, shape |-> <<0, 0>>,
          chosen |-> Rect(0, 0, 0, 0), region |-> Rect(0, 0, 0, 0)]

\* history of a call: the handler and its arguments, how it ended (cause), how
\* often the detector ran and how many faces it found, the pipeline stages that
\* ran, whether the store changed, whether the call's image is the one its
\* username was enrolled with when the call began, whether the username had a
\* record when the call began (had), whether a write of the call
\* failed, the match score computed, and the detector's candidates, the one
\* chosen and the region cut out (loc)
Called(op, username, image, cause, d, changed) ==
    [op |-> op, username |-> username, image |-> image, cause |-> cause,
     runs |-> IF d.kind = "ok" THEN d.runs ELSE 0,
     nfaces |-> IF d.kind = "ok" THEN d.nfaces ELSE -1,
     stages |-> IF d.kind = "ok" THEN <<"localize">> ELSE <<>>,
     changed |-> changed,
     same |-> d.kind = "ok" /\ EnrolledWith(username, d.face_img),
     had |-> username \in DOMAIN users,
     faulted |-> FALSE,
     score |-> NoScore,
     loc |-> IF d.kind = "ok"
             THEN [faces |-> d.faces, conf |-> d.conf, shape |-> d.shape,
                   chosen |-> d.chosen, region |-> d.region]
             ELSE NoLoc]

\* the JSON bodies the handlers return
register_failed(message) == [success |-> FALSE, message |-> message]
register_ok(username, image_path) ==
    [success |-> TRUE, message |-> <<"Face registered for user ", username>>,
     imagePath |-> image_path]
verify_failed(message) == [success |-> FALSE, verified |-> FALSE, message |-> message]
verify_done(verified) ==
    [success |-> TRUE, verified |-> verified,
     message |-> IF verified THEN <<"Face verification successful">>
                 ELSE <<"Face verification failed">>]
authorize_failed(message) ==
    [success |-> FALSE, authorized |-> FALSE, message |-> message]
authorize_done(authorized) ==
    [success |-> TRUE, authorized |-> authorized,
     message |-> IF authorized THEN <<"Payment authorized via facial recognition">>
                 ELSE <<"Face verification failed">>]

\* POST /register
register_face(username, image, iw, sv) ==
    /\ \E d \in {detect_face(image, face_cascade)} :
          IF d.kind = "raise"
          THEN /\ resp' = register_failed(StrOf(d))
               /\ UNCHANGED storeVars
               /\ call' = Called("register", username, image, "detect_raised", d, FALSE)
          ELSE IF d.kind = "none"
          THEN /\ resp' = register_failed(<<"Failed to detect face in image">>)
               /\ UNCHANGED storeVars
               /\ call' = Called("register", username, image, "no_face", d, FALSE)
          ELSE \E a \in {add_user(CurStore, username, d.face_img, iw, sv)} :
               /\ resp' = IF a.raised THEN register_failed(a.exc)
                          ELSE register_ok(username, a.path)
               /\ users' = a.st.users
               /\ dbFile' = a.st.dbFile
               /\ files' = a.st.files
               /\ call' = [Called("register", username, image,
                                  IF a.raised THEN "add_user_raised" ELSE "stored",
                                  d, a.st # CurStore)
                              EXCEPT !.faulted = (iw # "ok" \/ sv # "ok")]
    /\ UNCHANGED <<face_cascade, result, trace, evals, cmp>>

\* POST /verify
verify_face(username, image) ==
    /\ \E d \in {detect_face(image, face_cascade)} :
          IF d.kind = "raise"
          THEN /\ resp' = verify_failed(StrOf(d))
               /\ UNCHANGED storeVars
               /\ call' = Called("verify", username, image, "detect_raised", d, FALSE)
          ELSE IF d.kind = "none"
          THEN /\ resp' = verify_failed(<<"Failed to detect face in image">>)
               /\ UNCHANGED storeVars
               /\ call' = Called("verify", username, image, "no_face", d, FALSE)
          ELSE \E v \in {FaceDB_verify_face(CurStore, d.face_img, username)},
                  s \in {FaceDB_verify_face_leaves(CurStore, d.face_img, username)} :
               /\ resp' = verify_done(v.ret)
               /\ users' = s.users
               /\ dbFile' = s.dbFile
               /\ files' = s.files
               /\ call' = [Called("verify", username, image, v.line, d, s # CurStore)
                              EXCEPT !.score = v.score]
    /\ UNCHANGED <<face_cascade, result, trace, evals, cmp>>

\* POST /authorize-payment
authorize_payment(username, image) ==
    /\ \E d \in {detect_face(image, face_cascade)} :
          IF d.kind = "raise"
          THEN /\ resp' = authorize_failed(StrOf(d))
               /\ UNCHANGED storeVars
               /\ call' = Called("authorize", username, image, "detect_raised", d, FALSE)
          ELSE IF d.kind = "none"
          THEN /\ resp' = authorize_failed(<<"Failed to detect face in image">>)
               /\ UNCHANGED storeVars
               /\ call' = Called("authorize", username, image, "no_face", d, FALSE)
          ELSE \E v \in {FaceDB_verify_face(CurStore, d.face_img, username)},
                  s \in {FaceDB_verify_face_leaves(CurStore, d.face_img, username)} :
               /\ resp' = authorize_done(v.ret)
               /\ users' = s.users
               /\ dbFile' = s.dbFile
               /\ files' = s.files
               /\ call' = [Called("authorize", username, image, v.line, d, s # CurStore)
                              EXCEPT !.score = v.score]
    /\ UNCHANGED <<face_cascade, result, trace, evals, cmp>>

NoCall(op) == [op |-> op, username |-> None, image |-> None, cause |-> None,
               runs |-> 0, nfaces |-> -1, stages |-> <<>>, changed |-> FALSE,
               same |-> FALSE, had |-> FALSE, faulted |-> FALSE, score |-> NoScore, loc |-> NoLoc]

\* GET /users
list_users ==
    /\ resp' = [users |-> DOMAIN users, count |-> Cardinality(DOMAIN users)]
    /\ call' = NoCall("users")
    /\ UNCHANGED <<face_cascade, storeVars, result, trace, evals, reqs, cmp>>

\* a request arrives while `others` requests are in flight: the handler runs up
\* to its `image_data = await file.read()` and is suspended there.  The slot of
\* a request whose response was sent is free again.
Receive(slot, op, username, image) ==
    /\ reqs[slot].st # "reading"
    /\ reqs' = [s \in DOMAIN reqs |->
                  IF s = slot
                  THEN [st |-> "reading", op |-> op, username |-> username,
                        image |-> image,
                        overlap |-> \E o \in DOMAIN reqs : reqs[o].st = "reading"]
                  ELSE IF reqs[s].st = "reading"
                  THEN [reqs[s] EXCEPT !.overlap = TRUE]
                  ELSE [st |-> "idle"]]
    /\ UNCHANGED <<face_cascade, storeVars, resp, call, result, trace, evals, cmp>>

\* the response of the request in `slot` is sent
Responded(slot) ==
    reqs' = [reqs EXCEPT ![slot] =
                [st |-> "done", op |-> reqs[slot].op, username |-> reqs[slot].username,
                 image |-> reqs[slot].image, overlap |-> reqs[slot].overlap,
                 success |-> resp'.success, faulted |-> call'.faulted]]

\* the event loop resumes a suspended register handler: from file.read() to its
\* return there is no further await, so the rest runs as one step
ResumeRegister(slot, iw, sv) ==
    /\ reqs[slot].st = "reading" /\ reqs[slot].op = "register"
    /\ register_face(reqs[slot].username, reqs[slot].image, iw, sv)
    /\ Responded(slot)

\* the event loop resumes a suspended verify handler
ResumeVerify(slot) ==
    /\ reqs[slot].st = "reading" /\ reqs[slot].op = "verify"
    /\ verify_face(reqs[slot].username, reqs[slot].image)
    /\ Responded(slot)

\* the process starts again: the module is loaded anew (the classifier file is
\* found again), face_db = FaceDB()
Restart(sv) ==
    LET l == load_database(EmptyDict, dbFile, sv)
    IN  /\ face_cascade' = "ok"
        /\ users' = l.users
        /\ dbFile' = l.dbFile
        /\ files' = files
        /\ resp' = [started |-> TRUE]
        /\ call' = NoCall("restart")
        /\ UNCHANGED <<result, trace, evals, reqs, cmp>>

-----------------------------------------------------------------------------
(* face_utils.py: FaceProcessor.check_liveness and its four checks.

   The image computations behind the scores (LBP map, landmark model, Laplacian)
   are inputs: each either raises or yields a value.  Ratios are in hundredths
   (1.0 is 100); the eye-aspect ratio may also be inf or nan, which numpy's
   division by zero yields without raising. *)

Raised == [kind |-> "raise"]
Num(v) == [kind |-> "num", v |-> v]
Inf == [kind |-> "inf"]
NaN == [kind |-> "nan"]

\* x > t and x < t for a float x and a number t (every comparison with nan is False)
Gt(x, t) == (x.kind = "inf") \/ (x.kind = "num" /\ x.v > t)
Lt(x, t) == x.kind = "num" /\ x.v < t

\* (mutant) the except clause returning a ratio that passes the eye check
get_eye_aspect_ratio_passing(ear) == IF ear.kind = "raise" THEN Num(100) ELSE ear

\* get_eye_aspect_ratio: the average ratio, or 0.0 when the computation raised
get_eye_aspect_ratio(ear) == IF ear.kind = "raise" THEN Num(0) ELSE ear

\* check_head_pose: the angles' verdict, or False when the computation raised
check_head_pose(pose) == IF pose.kind = "raise" THEN FALSE ELSE pose.v

\* (mutant) the except clause returning the score of a clean image
check_image_artifacts_passing(lap) ==
    IF lap.kind = "raise" THEN Num(0)
    ELSE Num(Min((lap.v * 100) \div 500, 100))

\* check_image_artifacts: min(variance / 500.0, 1.0), or 1.0 when it raised
check_image_artifacts(lap) ==
    IF lap.kind = "raise" THEN Num(100)
    ELSE Num(Min((lap.v * 100) \div 500, 100))

\* the thresholds of lines 151, 152 (0.15) and 154 (0.85)
textureThreshold == 25
eyeThreshold == 15
artifactThreshold == 85

\* (mutant) the texture check passing at the threshold too
texture_check_inclusive(texture_score) == Gt(texture_score, textureThreshold - 1)

texture_check(texture_score) == Gt(texture_score, textureThreshold)
eye_check(eye_aspect_ratio) == Gt(eye_aspect_ratio, eyeThreshold)
artifact_check(artifact_score) == Lt(artifact_score, artifactThreshold)

B2I(b) == IF b THEN 1 ELSE 0

\* (mutant) the head-pose check counted like the others
passing_checks_with_pose(texture, eye, pose, artifact) ==
    B2I(texture) + B2I(eye) + B2I(pose) + B2I(artifact)

\* line 157: sum([texture_check, eye_check, True, artifact_check])
passing_checks(texture, eye, pose, artifact) ==
    B2I(texture) + B2I(eye) + B2I(TRUE) + B2I(artifact)

\* line 160
requiredChecks == 3

\* (mutant) one check fewer required
is_live_lenient(passing) == passing >= requiredChecks - 1

is_live(passing) == passing >= requiredChecks

\* the scores of an evaluation that reached line 148
Scores(in) ==
    [texture_score |-> in.tex,
     eye_aspect_ratio |-> get_eye_aspect_ratio(in.ear),
     head_pose_valid |-> check_head_pose(in.pose),
     artifact_score |-> check_image_artifacts(in.lap)]

\* whether the evaluation leaves the try block by an exception (lines 172-174):
\* the gray conversion or the texture map raised (the other three catch their own)
LivenessRaises(in) == in.gray = "raise" \/ in.tex.kind = "raise"

\* FaceProcessor.check_liveness
check_liveness(in) ==
    IF LivenessRaises(in) THEN FALSE
    ELSE LET sc == Scores(in)
         IN  is_live(passing_checks(texture_check(sc.texture_score),
                                    eye_check(sc.eye_aspect_ratio),
                                    sc.head_pose_valid,
                                    artifact_check(sc.artifact_score)))

\* the three scored checks of lines 151, 152 and 154
Checks(sc) ==
    [texture_check |-> texture_check(sc.texture_score),
     eye_check |-> eye_check(sc.eye_aspect_ratio),
     artifact_check |-> artifact_check(sc.artifact_score)]

\* what one evaluation of check_liveness computes: its answer and, when it
\* reaches them, its scores (line 148) and its checks (lines 151-154)
Evaluation(in) ==
    [done |-> TRUE, in |-> in, live |-> check_liveness(in),
     scores |-> IF LivenessRaises(in) THEN <<>> ELSE <<Scores(in)>>,
     checks |-> IF LivenessRaises(in) THEN <<>> ELSE <<Checks(Scores(in))>>]

\* the inputs of an evaluation: around each threshold, and every failure
TexOutcomes == {Raised, Num(25), Num(26)}
EarOutcomes == {Raised, Num(15), Num(16), Inf, NaN}
PoseOutcomes == {Raised, [kind |-> "num", v |-> TRUE], [kind |-> "num", v |-> FALSE]}
LapOutcomes == {Raised, Num(424), Num(425), Num(600)}

LiveInputs ==
    [gray : {"ok", "raise"}, tex : TexOutcomes, ear : EarOutcomes,
     pose : PoseOutcomes, lap : LapOutcomes]

\* one evaluation, in slot 1 (slot 2 is cleared)
Evaluate(in) ==
    /\ evals' = [evals EXCEPT ![1] = Evaluation(in), ![2] = [done |-> FALSE]]
    /\ UNCHANGED <<face_cascade, storeVars, resp, call, result, trace, reqs, cmp>>

\* a second evaluation, in slot 2, of a face that differs from the one of slot 1
\* in the head pose only
EvaluateOtherPose(pose) ==
    /\ evals[1].done
    /\ LET in == [evals[1].in EXCEPT !.pose = pose]
       IN  evals' = [evals EXCEPT ![2] = Evaluation(in)]
    /\ UNCHANGED <<face_cascade, storeVars, resp, call, result, trace, reqs, cmp>>

-----------------------------------------------------------------------------
(* face_utils.py: FaceProcessor.detect_face *)

Box(x1, y1, x2, y2) == [x1 |-> x1, y1 |-> y1, x2 |-> x2, y2 |-> y2]

\* the images FaceProcessor.detect_face is called with: width, height and what
\* self.mtcnn.detect does on them: raises, returns None, or returns the boxes
\* (coordinates as int() leaves them) with their probabilities in hundredths
ProcImageTable ==
    [ one   |-> [W |-> 20, H |-> 20, det |-> "boxes",
                 boxes |-> <<Box(5, 5, 15, 15)>>, probs |-> <<99>>],
      two   |-> [W |-> 20, H |-> 20, det |-> "boxes",
                 boxes |-> <<Box(0, 0, 18, 18), Box(6, 6, 11, 11)>>,
                 probs |-> <<80, 95>>],
      edge  |-> [W |-> 20, H |-> 16, det |-> "boxes",
                 boxes |-> <<Box(-2, 1, 19, 15), Box(3, 3, 9, 9)>>,
                 probs |-> <<97, 97>>],
      empty |-> [W |-> 20, H |-> 20, det |-> "boxes", boxes |-> <<>>, probs |-> <<>>],
      blank |-> [W |-> 20, H |-> 20, det |-> "none", boxes |-> <<>>, probs |-> <<>>],
      crash |-> [W |-> 20, H |-> 20, det |-> "raise", boxes |-> <<>>, probs |-> <<>>] ]

ProcImages == DOMAIN ProcImageTable

\* np.argmax(probs): the first index of the largest probability
RECURSIVE ArgMaxFrom(_, _, _)
ArgMaxFrom(probs, i, best) ==
    IF i > Len(probs) THEN best
    ELSE ArgMaxFrom(probs, i + 1, IF probs[i] > probs[best] THEN i ELSE best)
np_argmax(probs) == ArgMaxFrom(probs, 2, 1)

\* lines 50-58: the most probable box, widened by int(0.2 * width) on every side
\* and clamped to the image
ProcRegion(im) ==
    LET box == im.boxes[np_argmax(im.probs)]
        margin == Margin(box.x2 - box.x1)
    IN  Box(Max(0, box.x1 - margin), Max(0, box.y1 - margin),
            Min(im.W, box.x2 + margin), Min(im.H, box.y2 + margin))

NoFace == [none |-> TRUE]

\* (mutant) detect_face with the detector called outside the try block: its
\* exception leaves the call
detect_face_run_unguarded(im, in, aligns) ==
    IF im.det = "raise"
    THEN [face |-> NoFace, is_live |-> FALSE, stages |-> <<"localize">>,
          end |-> "raised"]
    ELSE IF im.det = "none" \/ Len(im.boxes) = 0
    THEN [face |-> NoFace, is_live |-> FALSE, stages |-> <<"localize">>,
          end |-> "no_face"]
    ELSE IF ~check_liveness(in)
    THEN [face |-> NoFace, is_live |-> FALSE, stages |-> <<"localize", "liveness">>,
          end |-> "not_live"]
    ELSE IF ~aligns
    THEN [face |-> NoFace, is_live |-> FALSE,
          stages |-> <<"localize", "liveness", "align">>, end |-> "align_failed"]
    ELSE [face |-> [none |-> FALSE, region |-> ProcRegion(im)], is_live |-> TRUE,
          stages |-> <<"localize", "liveness", "align">>, end |-> "returned"]

\* the run of FaceProcessor.detect_face on image im, whose face region has the
\* liveness inputs `in` and on which align_face returns a face iff aligns:
\* the (face, is_live) returned, the stages entered and the return taken
detect_face_run(im, in, aligns) ==
    IF im.det = "raise"
    THEN [face |-> NoFace, is_live |-> FALSE, stages |-> <<"localize">>,
          end |-> "exception"]
    ELSE IF im.det = "none" \/ Len(im.boxes) = 0
    THEN [face |-> NoFace, is_live |-> FALSE, stages |-> <<"localize">>,
          end |-> "no_face"]
    ELSE IF ~check_liveness(in)
    THEN [face |-> NoFace, is_live |-> FALSE, stages |-> <<"localize", "liveness">>,
          end |-> "not_live"]
    ELSE IF ~aligns
    THEN [face |-> NoFace, is_live |-> FALSE,
          stages |-> <<"localize", "liveness", "align">>, end |-> "align_failed"]
    ELSE [face |-> [none |-> FALSE, region |-> ProcRegion(im)], is_live |-> TRUE,
          stages |-> <<"localize", "liveness", "align">>, end |-> "returned"]

\* a call of FaceProcessor.detect_face
FaceProcessor_detect_face(image, in, aligns) ==
    /\ \E r \in {detect_face_run(ProcImageTable[image], in, aligns)} :
          /\ result' = [face |-> r.face, is_live |-> r.is_live]
          /\ trace' = [image |-> image, stages |-> r.stages, end |-> r.end,
                       scores |-> IF Len(r.stages) >= 2 /\ ~LivenessRaises(in)
                                  THEN <<Scores(in)>> ELSE <<>>]
    /\ UNCHANGED <<face_cascade, storeVars, resp, call, evals, reqs, cmp>>

-----------------------------------------------------------------------------
(* face_utils.py: FaceProcessor.compare_faces.  An embedding is a flattened
   vector of numbers; the similarity dot / (norm1 * norm2) is kept exactly, as
   the pair (dot, norm1^2 * norm2^2). *)

\* bounds: the embeddings have 1..MaxDim coordinates, each in -MaxCoord..MaxCoord
MaxDim == 2
MaxCoord == 2

Embeddings == UNION {[1..n -> (-MaxCoord)..MaxCoord] : n \in 1..MaxDim}

\* the float dot / sqrt(den2) (den2 > 0)
Sim(dot, den2) == [kind |-> "sim", num |-> dot, den2 |-> den2]
\* the literal 0.0 of the except clause
Zero == Sim(0, 1)

\* compare_faces dividing the dot product by the norm of embedding1 only
compare_faces_one_norm(embedding1, embedding2) ==
    IF Len(embedding1) # Len(embedding2)
    THEN Zero
    ELSE IF Dot(embedding1, embedding1) * Dot(embedding2, embedding2) = 0
    THEN NaN
    ELSE Sim(Dot(embedding1, embedding2), Dot(embedding1, embedding1))

\* FaceProcessor.compare_faces: np.dot raises on vectors of different lengths,
\* which the except clause turns into 0.0; a zero norm makes the division
\* 0.0 / 0.0, which numpy evaluates to nan with a warning, not an exception
compare_faces(embedding1, embedding2) ==
    IF Len(embedding1) # Len(embedding2)
    THEN Zero
    ELSE IF Dot(embedding1, embedding1) * Dot(embedding2, embedding2) = 0
    THEN NaN
    ELSE Sim(Dot(embedding1, embedding2),
             Dot(embedding1, embedding1) * Dot(embedding2, embedding2))

\* a call of FaceProcessor.compare_faces
FaceProcessor_compare_faces(embedding1, embedding2) ==
    /\ cmp' = [done |-> TRUE, embedding1 |-> embedding1, embedding2 |-> embedding2,
               ret |-> compare_faces(embedding1, embedding2)]
    /\ UNCHANGED <<face_cascade, storeVars, resp, call, result, trace, evals, reqs>>

-----------------------------------------------------------------------------
(* The face server: specification Spec *)

\* (imwrite outcome, save_database outcome): the database is written only after
\* the image was
IoPairs == {p \in IoOutcomes \X IoOutcomes : p[1] # "ok" => p[2] = "ok"}

InitProc ==
    /\ result = [face |-> NoFace, is_live |-> FALSE]
    /\ trace = [image |-> None, stages |-> <<>>, end |-> None, scores |-> <<>>]

InitLive ==
    evals = [slot \in {1, 2} |-> [done |-> FALSE]]

\* no request in flight, nothing compared yet
InitIdle ==
    /\ reqs = [slot \in {1, 2} |-> [st |-> "idle"]]
    /\ cmp = [done |-> FALSE]

\* a fresh deployment: the classifier loaded, FaceDB() found no database file
\* and created an empty one
Init ==
    /\ face_cascade = "ok"
    /\ users = EmptyDict
    /\ dbFile = FileWith(EmptyDict)
    /\ files = [n \in Names |-> NoFile]
    /\ resp = [started |-> TRUE]
    /\ call = NoCall("restart")
    /\ InitProc
    /\ InitLive
    /\ InitIdle

Next ==
    \/ \E username \in Names, image \in Images, io \in IoPairs :
          register_face(username, image, io[1], io[2]) /\ UNCHANGED reqs
    \/ \E username \in Names, image \in Images :
          verify_face(username, image) /\ UNCHANGED reqs
    \/ \E username \in Names, image \in Images :
          authorize_payment(username, image) /\ UNCHANGED reqs
    \/ list_users
    \/ \E sv \in IoOutcomes : Restart(sv)

Spec == Init /\ [][Next]_vars

-----------------------------------------------------------------------------
(* The liveness evaluator alone: specification SpecLive *)

NextLive ==
    \/ \E in \in LiveInputs : Evaluate(in)
    \/ \E pose \in PoseOutcomes : EvaluateOtherPose(pose)

SpecLive == Init /\ [][NextLive]_vars

-----------------------------------------------------------------------------
(* FaceProcessor.detect_face alone: specification SpecProc *)

\* the face regions the detector finds convert to gray (they are not empty)
ProcLiveInputs == {in \in LiveInputs : in.gray = "ok"}

NextProc ==
    \E image \in ProcImages, in \in ProcLiveInputs, aligns \in BOOLEAN :
        FaceProcessor_detect_face(image, in, aligns)

SpecProc == Init /\ [][NextProc]_vars

-----------------------------------------------------------------------------
(* FaceProcessor.compare_faces alone: specification SpecMatch *)

\* the two embeddings a caller is about to compare
InitMatch ==
    /\ face_cascade = "ok"
    /\ users = EmptyDict
    /\ dbFile = FileWith(EmptyDict)
    /\ files = [n \in Names |-> NoFile]
    /\ resp = [started |-> TRUE]
    /\ call = NoCall("restart")
    /\ InitProc
    /\ InitLive
    /\ reqs = [slot \in {1, 2} |-> [st |-> "idle"]]
    /\ cmp \in [done : {FALSE}, embedding1 : Embeddings, embedding2 : Embeddings]

NextMatch ==
    /\ ~cmp.done
    /\ FaceProcessor_compare_faces(cmp.embedding1, cmp.embedding2)

SpecMatch == InitMatch /\ [][NextMatch]_vars

-----------------------------------------------------------------------------
(* The handlers under concurrent requests: specification SpecConc.  Up to two
   requests are in flight; the request in slot 1 uploads faceA, the one in
   slot 2 uploads faceB. *)

SlotImage == <<"faceA", "faceB">>

NextConc ==
    \/ \E slot \in DOMAIN reqs, op \in {"register", "verify"}, username \in Names :
          Receive(slot, op, username, SlotImage[slot])
    \/ \E slot \in DOMAIN reqs, io \in IoPairs : ResumeRegister(slot, io[1], io[2])
    \/ \E slot \in DOMAIN reqs : ResumeVerify(slot)

SpecConc == Init /\ [][NextConc]_vars

-----------------------------------------------------------------------------
(* The answers of consecutive verify and authorize-payment calls: specification
   SpecSeq.  reqs[1] is the last verify or authorize-payment call answered
   since the last register, reqs[2] the one before it. *)

SeqImages == {"faceA", "faceB", "junk"}

\* the value a verify or authorize-payment response carries
Decision(op, r) == IF op = "verify" THEN r.verified ELSE r.authorized

\* a call answered with the response r, on the store st
Answered(op, username, image, r, st) ==
    [st |-> "done", op |-> op, username |-> username, image |-> image,
     success |-> r.success, decision |-> Decision(op, r), store |-> st]

NextSeq ==
    \/ \E username \in Names, image \in SeqImages, io \in IoPairs :
          /\ register_face(username, image, io[1], io[2])
          /\ reqs' = [slot \in {1, 2} |-> [st |-> "idle"]]
    \/ \E username \in Names, image \in SeqImages :
          /\ verify_face(username, image)
          /\ reqs' = [reqs EXCEPT
                         ![1] = Answered("verify", username, image, resp', CurStore),
                         ![2] = reqs[1]]
    \/ \E username \in Names, image \in SeqImages :
          /\ authorize_payment(username, image)
          /\ reqs' = [reqs EXCEPT
                         ![1] = Answered("authorize", username, image, resp', CurStore),
                         ![2] = reqs[1]]

SpecSeq == Init /\ [][NextSeq]_vars

-----------------------------------------------------------------------------
(* Claims C1-C5, C10: the face server (Spec) *)

\* C1: whenever a register call ends in a failure outcome, the store is as it
\* was before the call: the users map, the database file and every stored
\* face image are unchanged.
C1_EnrollFailureLeavesStore ==
    (call.op = "register" /\ ~resp.success) => ~call.changed

PipelineStages == <<"localize", "liveness", "align", "embed">>

PositiveMatch ==
    \/ call.op = "verify" /\ resp.success /\ resp.verified
    \/ call.op = "authorize" /\ resp.success /\ resp.authorized

\* C2: a record is created or replaced, and verify / authorize answer a positive
\* match, only for an image that went through localize, liveness, align and
\* embed in that order, each stage reached only after the earlier ones succeeded.
C2_LivenessGated ==
    /\ (call.op = "register" /\ call.cause = "stored") => call.stages = PipelineStages
    /\ PositiveMatch => call.stages = PipelineStages

\* C3: for an image in which the detector finds zero faces, enroll and verify
\* end with the no-face outcome and the store is unmodified (no record written,
\* no comparison made).
C3_NoFaceDetected ==
    (call.op \in {"register", "verify"} /\ call.nfaces = 0)
        => (call.cause = "no_face" /\ ~resp.success /\ ~call.changed)

\* C4: verify for an identity that has no record answers an outcome of its own,
\* different from a completed verification with verified: false.
C4_UnknownIdentityDistinct ==
    (call.op = "verify" /\ call.cause = "L134") => resp # verify_done(FALSE)

\* C5: verify(identity, image) answers verified: true when the identity's record
\* is the one a successful enroll(identity, image) with the same image wrote.
C5_RoundTrip ==
    (call.op = "verify" /\ call.same) => (resp.success /\ resp.verified)

\* the ways a verify call ends without completing the comparison
IncompleteCauses == {"detect_raised", "no_face", "L134", "L140", "L147", "L175"}

\* C10: a verification that could not be completed (a pipeline failure, an error
\* while comparing, the stored image missing or unreadable) answers something
\* the caller can tell from a completed verification with verified: false.
C10_IncompleteDistinct ==
    (call.op = "verify" /\ call.cause \in IncompleteCauses \ {"L134"})
        => resp # verify_done(FALSE)

-----------------------------------------------------------------------------
(* Claims C6-C8: the liveness evaluator (SpecLive) *)

TexturePasses(in) == in.tex.kind = "num" /\ in.tex.v > 25
EyePasses(in) == in.ear.kind = "inf" \/ (in.ear.kind = "num" /\ in.ear.v > 15)
ArtifactPasses(in) == in.lap.kind = "num" /\ in.lap.v * 100 < 85 * 500

ScoredPassing(in) ==
    B2I(TexturePasses(in)) + B2I(EyePasses(in)) + B2I(ArtifactPasses(in))

\* C6: an evaluation that computes its four checks is live iff at least 3 of
\* {texture, eye, pose, artifact} pass with pose always counted as passing,
\* i.e. iff at least 2 of {texture, eye, artifact} pass; and no evaluation
\* whose texture check and eye check both fail is live.
C6_LiveIffThreeOfFour ==
    \A slot \in {1, 2} :
        evals[slot].done =>
            /\ ~LivenessRaises(evals[slot].in) =>
                  /\ evals[slot].live <=> (ScoredPassing(evals[slot].in) + 1 >= 3)
                  /\ evals[slot].live <=> (ScoredPassing(evals[slot].in) >= 2)
            /\ (~TexturePasses(evals[slot].in) /\ ~EyePasses(evals[slot].in))
                  => ~evals[slot].live

\* live on exactly 3 of 4: the texture check failed, eye and artifact passed
C6_Witness ==
    /\ evals[1].done
    /\ evals[1].in.tex = Num(25)
    /\ evals[1].live

AnyRaised(in) ==
    \/ in.gray = "raise"
    \/ in.tex.kind = "raise"
    \/ in.ear.kind = "raise"
    \/ in.pose.kind = "raise"
    \/ in.lap.kind = "raise"

C8_PoseNeverInfluences ==
    ( /\ evals[1].done
      /\ evals[2].done
      /\ evals[1].in.gray = evals[2].in.gray
      /\ evals[1].in.tex = evals[2].in.tex
      /\ evals[1].in.ear = evals[2].in.ear
      /\ evals[1].in.lap = evals[2].in.lap )
        => evals[1].live = evals[2].live

\* a live face whose head pose is valid in one evaluation and fails to compute
\* in the other
C8_Witness ==
    /\ evals[1].done
    /\ evals[2].done
    /\ evals[1].in.pose = [kind |-> "num", v |-> TRUE]
    /\ evals[2].in.pose = Raised
    /\ evals[1].live
    /\ evals[2].live

-----------------------------------------------------------------------------
(* Claim C9: FaceProcessor.detect_face (SpecProc) *)

\* what detect_face returns when no face is detected (line 47)
NoFaceResult == [face |-> NoFace, is_live |-> FALSE]

\* C9: each stage failure of enroll is reported as an outcome of its own: a
\* liveness failure and an alignment failure are told from no face detected
\* and from each other.
C9_StageFailuresDistinct ==
    trace.end \in {"not_live", "align_failed"} => result # NoFaceResult

-----------------------------------------------------------------------------
(* Claims C11-C13, C16: the enrollment store (Spec) *)

\* the face image the last call's detect_face returned
CallFace == detect_face(call.image, "ok").face_img

\* the identities the persisted database holds a record of
Persisted == IF dbFile.state = "data" THEN DOMAIN dbFile.data ELSE {}

\* C11: after a successful register of an identity that already had a record,
\* the store holds one record of it, and its stored image, its entry in the
\* in-memory map and its entry in the persisted database are those written
\* for the new image.
C11_ReenrollReplaces ==
    (call.op = "register" /\ resp.success /\ call.had) =>
        /\ call.username \in DOMAIN users
        /\ users[call.username] = Path(call.username)
        /\ files[call.username] = FileWith(JpegEncode(CallFace))
        /\ call.username \in Persisted
        /\ dbFile.data[call.username] = Path(call.username)

\* C12: no register, verify, authorize-payment or users call removes an identity
\* from the in-memory map or from the persisted database.
C12_StaysEnrolled ==
    [][call'.op \in {"register", "verify", "authorize", "users"} =>
          /\ DOMAIN users \subseteq DOMAIN users'
          /\ Persisted \subseteq Persisted']_vars

\* C13: a register in which a write failed (the face image or the database
\* file) reports failure and leaves the store as it was; and a register that
\* reports success has written the database file.
C13_StorageFailureReported ==
    /\ (call.op = "register" /\ call.faulted) => (~resp.success /\ ~call.changed)
    /\ (call.op = "register" /\ resp.success) => dbFile = FileWith(users)

\* C16: a verify or authorize-payment call, whatever its outcome, leaves the
\* in-memory map, the persisted database and every stored image as they were.
C16_VerifyNeverMutates ==
    [][call'.op \in {"verify", "authorize"} =>
          (users' = users /\ dbFile' = dbFile /\ files' = files)]_vars

\* a verify read the stored image of an enrolled identity and compared a probe
\* of another image with it
C16_Witness ==
    /\ call.op = "verify" /\ call.cause = "L172"
    /\ call.had /\ ~call.same

-----------------------------------------------------------------------------
(* Claim C17: the match decision (Spec) *)

\* the decision the last verify or authorize-payment call returned
Matched == IF call.op = "verify" THEN resp.verified ELSE resp.authorized

\* C17: whenever a probe was compared with the stored reference, the decision
\* is a match exactly when the similarity is strictly greater than 0.85
\* (17/20).
C17_MatchIffAbove085 ==
    (call.op \in {"verify", "authorize"} /\ call.cause = "L172") =>
        (Matched <=> ScoreGreater(call.score, 17, 20))

-----------------------------------------------------------------------------
(* Claims C19, C20: the localizer the handlers run, main.detect_face (Spec) *)

\* the last call ran the detector and it reported at least one candidate
Localized ==
    call.op \in {"register", "verify", "authorize"} /\ call.nfaces >= 1

\* C19: when the detector reports one or more candidates, the one chosen is the
\* candidate of maximum probability, whatever its area.
C19_MaxProbabilityChosen ==
    Localized => call.loc.chosen = call.loc.faces[np_argmax(call.loc.conf)]

\* C20: for the chosen box (x1, y1, x2, y2) in an image of width W and height H,
\* with m = floor(0.2 * (x2 - x1)), the region cut out is
\* [max(0, x1 - m), min(W, x2 + m)] by [max(0, y1 - m), min(H, y2 + m)].
C20_RegionIsMarginClamped ==
    Localized =>
        LET c == call.loc.chosen
            r == call.loc.region
            m == (2 * ((c.x + c.w) - c.x)) \div 10
        IN  /\ r.x = Max(0, c.x - m)
            /\ r.x + r.w = Min(call.loc.shape[2], c.x + c.w + m)
            /\ r.y = Max(0, c.y - m)
            /\ r.y + r.h = Min(call.loc.shape[1], c.y + c.h + m)

-----------------------------------------------------------------------------
(* Claim C18: the similarity of two embeddings (SpecMatch) *)

\* the cosine of the two embeddings last compared is undefined
CosineUndefined ==
    \/ Len(cmp.embedding1) # Len(cmp.embedding2)
    \/ Dot(cmp.embedding1, cmp.embedding1) = 0
    \/ Dot(cmp.embedding2, cmp.embedding2) = 0

\* C18: for two vectors of different lengths, and for any pair in which a vector
\* has zero norm, compare_faces returns the number 0.
C18_UndefinedGivesZero ==
    (cmp.done /\ CosineUndefined) => (cmp.ret.kind = "sim" /\ cmp.ret.num = 0)

-----------------------------------------------------------------------------
(* Claims C14, C15: concurrent requests (SpecConc) *)

\* both requests were register calls for distinct identities, in flight at the
\* same time, and both have returned
BothEnrolled ==
    /\ \A s \in DOMAIN reqs :
          reqs[s].st = "done" /\ reqs[s].op = "register" /\ reqs[s].overlap
    /\ reqs[1].username # reqs[2].username

\* the store holds the record the register call of `slot` alone would have
\* written: the image, the entry of the in-memory map, the persisted entry
RecordOf(slot) ==
    LET u == reqs[slot].username
    IN  /\ u \in DOMAIN users
        /\ users[u] = Path(u)
        /\ files[u] = FileWith(JpegEncode(detect_face(reqs[slot].image, "ok").face_img))
        /\ u \in Persisted
        /\ dbFile.data[u] = Path(u)

\* C14: two concurrent register calls for distinct identities both succeed
\* (unless a write of theirs failed), and when both report success the store
\* holds both records, each as its call alone would have written it.
C14_ConcurrentEnrollsIndependent ==
    BothEnrolled =>
        /\ (\A s \in DOMAIN reqs : ~reqs[s].faulted) =>
               (\A s \in DOMAIN reqs : reqs[s].success)
        /\ (\A s \in DOMAIN reqs : reqs[s].success) =>
               (\A s \in DOMAIN reqs : RecordOf(s))

\* C15: no verify finds a torn record: an entry of the identity whose stored
\* image is absent or unreadable, or a stored image file without an entry.
C15_NoTornRecordObserved ==
    call.op = "verify" =>
        /\ call.cause \notin {"L140", "L147"}
        /\ call.cause = "L134" => files[call.username] = NoFile

-----------------------------------------------------------------------------
(* Claims C21, C22: detection and input errors in the handlers (Spec) *)

\* the last call was a register, verify or authorize-payment call
Handled == call.op \in {"register", "verify", "authorize"}

\* C21: within one call the detector runs once, and when it reports zero
\* candidates the call ends as no face detected.
C21_DetectorRunsOnce ==
    (Handled /\ call.runs > 0) =>
        /\ call.runs = 1
        /\ Len(ImageTable[call.image].det1) = 0 => call.cause = "no_face"

\* C22: a call with an undecodable image reports the invalid-image error
\* itself, with its status 400 and its message, and leaves the store unchanged.
C22_InputErrorVerbatim ==
    (Handled /\ ~ImageTable[call.image].dec) =>
        /\ ~resp.success
        /\ resp.message = StrOf(HTTPException(400, "Invalid image format"))
        /\ ~call.changed

-----------------------------------------------------------------------------
(* Claim C23: the similarity of an embedding with itself and with its
   negation (SpecMatch) *)

Neg(embedding) == [i \in DOMAIN embedding |-> 0 - embedding[i]]

\* the float dot / sqrt(den2) is exactly 1.0
IsOne(sim) == sim.kind = "sim" /\ sim.num > 0 /\ sim.num * sim.num = sim.den2
\* the float dot / sqrt(den2) is exactly -1.0
IsMinusOne(sim) == sim.kind = "sim" /\ sim.num < 0 /\ sim.num * sim.num = sim.den2

\* C23: for every non-zero embedding a, compare_faces(a, a) is 1 and
\* compare_faces(a, -a) is -1.
C23_SelfAndNegation ==
    (cmp.done /\ Dot(cmp.embedding1, cmp.embedding1) # 0) =>
        /\ cmp.embedding2 = cmp.embedding1 => IsOne(cmp.ret)
        /\ cmp.embedding2 = Neg(cmp.embedding1) => IsMinusOne(cmp.ret)

C23_Witness ==
    /\ cmp.done
    /\ cmp.embedding1 = <<1, 2>>
    /\ cmp.embedding2 = <<-1, -2>>
    /\ IsMinusOne(cmp.ret)

-----------------------------------------------------------------------------
(* Claims C24, C25: the scored checks of the liveness evaluator (SpecLive) *)

\* C24: the texture check passes iff the texture score is > 25, the eye check
\* iff the eye-aspect ratio is > 0.15, the artifact check iff the normalized
\* artifact score is < 0.85; a score equal to its threshold fails its check.
C24_StrictThresholds ==
    \A slot \in {1, 2} :
        (evals[slot].done /\ Len(evals[slot].checks) = 1) =>
            LET sc == evals[slot].scores[1]
                ck == evals[slot].checks[1]
            IN  /\ ck.texture_check <=> (sc.texture_score.v > 25)
                /\ sc.texture_score.v = 25 => ~ck.texture_check
                /\ ck.eye_check <=>
                      \/ sc.eye_aspect_ratio.kind = "inf"
                      \/ sc.eye_aspect_ratio.kind = "num" /\ sc.eye_aspect_ratio.v > 15
                /\ sc.eye_aspect_ratio = Num(15) => ~ck.eye_check
                /\ ck.artifact_check <=> (sc.artifact_score.v < 85)
                /\ sc.artifact_score.v = 85 => ~ck.artifact_check

\* every score is exactly at its threshold, and every check fails
C24_Witness ==
    /\ evals[1].done
    /\ Len(evals[1].checks) = 1
    /\ evals[1].scores[1].texture_score = Num(25)
    /\ evals[1].scores[1].eye_aspect_ratio = Num(15)
    /\ evals[1].scores[1].artifact_score = Num(85)
    /\ ~evals[1].checks[1].texture_check
    /\ ~evals[1].checks[1].eye_check
    /\ ~evals[1].checks[1].artifact_check
    /\ ~evals[1].live

\* C25: a scored check whose computation raises is not counted as passing:
\* an error in the eye-aspect-ratio computation yields 0.0 and the eye check
\* fails, an error in the artifact computation yields 1.0 and the artifact
\* check fails, an error in the texture computation makes the evaluation not
\* live.
C25_RaisedCheckNeverPasses ==
    \A slot \in {1, 2} :
        evals[slot].done =>
            /\ evals[slot].in.tex.kind = "raise" =>
                  (~evals[slot].live /\ evals[slot].checks = <<>>)
            /\ (evals[slot].in.ear.kind = "raise" /\ Len(evals[slot].checks) = 1) =>
                  /\ evals[slot].scores[1].eye_aspect_ratio = Num(0)
                  /\ ~evals[slot].checks[1].eye_check
            /\ (evals[slot].in.lap.kind = "raise" /\ Len(evals[slot].checks) = 1) =>
                  /\ evals[slot].scores[1].artifact_score = Num(100)
                  /\ ~evals[slot].checks[1].artifact_check

\* the eye-aspect-ratio and the artifact computations both raised, the texture
\* check passed, and the face is not live
C25_Witness ==
    /\ evals[1].done
    /\ evals[1].in.ear.kind = "raise"
    /\ evals[1].in.lap.kind = "raise"
    /\ Len(evals[1].checks) = 1
    /\ evals[1].checks[1].texture_check
    /\ ~evals[1].checks[1].eye_check
    /\ ~evals[1].checks[1].artifact_check
    /\ ~evals[1].live

-----------------------------------------------------------------------------
(* Claim C26: what FaceProcessor.detect_face returns (SpecProc) *)

\* C26: FaceProcessor.detect_face never raises; it returns either an aligned
\* face with True or None with False.
C26_FaceAndFlagTogether ==
    trace.end # None =>
        /\ trace.end # "raised"
        /\ \/ ~result.face.none /\ result.is_live
           \/ result.face = NoFace /\ ~result.is_live
        /\ trace.end = "returned" <=> result.is_live

\* the detector raised and the call returned None with False
C26_Witness ==
    /\ trace.end = "exception"
    /\ result.face = NoFace
    /\ ~result.is_live

-----------------------------------------------------------------------------
(* Claims C27, C28: authorization and the map of enrolled identities (Spec) *)

\* C27: authorize-payment answers authorized: true only if the identity had a
\* record when the call began and the comparison of the probe with its stored
\* reference exceeded the threshold; every response with success: false, and
\* every response for an unknown identity, a missing or unreadable stored image
\* or an internal error, carries authorized: false.
C27_AuthorizedOnlyOnMatch ==
    call.op = "authorize" =>
        /\ resp.authorized =>
              /\ resp.success
              /\ call.had
              /\ call.cause = "L172"
              /\ ScoreGreater(call.score, thresholdNum, thresholdDen)
        /\ ~resp.success => ~resp.authorized
        /\ call.cause \in IncompleteCauses => ~resp.authorized

\* a payment authorized for an enrolled identity
C27_Witness ==
    /\ call.op = "authorize"
    /\ call.had
    /\ resp.success
    /\ resp.authorized

-----------------------------------------------------------------------------
(* Claim C29: enrollments and restarts (Spec) *)

\* C29: a restart that follows a successful register leaves the set of
\* enrolled identities and their paths as they were before it, and a register
\* after a restart drops no identity from the persisted database.
C29_EnrollmentsSurviveRestart ==
    [][/\ (call.op = "register" /\ resp.success /\ call'.op = "restart")
            => users' = users
       /\ (call.op = "restart" /\ call'.op = "register")
            => Persisted \subseteq Persisted']_vars

-----------------------------------------------------------------------------
(* Claim C30: verify and authorize-payment decide alike (SpecSeq) *)

\* the last two calls were verify or authorize-payment calls for the same
\* identity with the same image, no register between them
SameQuestionTwice ==
    /\ reqs[1].st = "done"
    /\ reqs[2].st = "done"
    /\ reqs[1].username = reqs[2].username
    /\ reqs[1].image = reqs[2].image

====
